---- MODULE Spec2Model ----
(***************************************************************************)
(* Model of S3Downloader (src/index.js): one deployment attempt started by *)
(* download().  Strings are sequences of one-character strings.  The local *)
(* filesystem is a function from the two directory paths the attempt can   *)
(* touch (outputPath and outputPath-holding) to a tag naming the contents  *)
(* of the directory found there.                                           *)
(***************************************************************************)
EXTENDS Integers, Sequences, FiniteSets, TLC

\* ------------------------------------------------------------------ bounds
\* longest artifact file-name stem the pointer document may name
MaxStemLen == 3

\* ------------------------------------------------------- program constants
maxNumUnzipAttempts == 5

\* ----------------------------------------------------------------- strings
\* the value of an instance field that was never assigned
Undef == <<"undefined">>

\* JavaScript truthiness of a string-or-undefined value
Truthy(s) == s # Undef /\ s # <<>>

ZipExt == <<".", "z", "i", "p">>
HoldingSuffix == <<"-", "h", "o", "l", "d", "i", "n", "g">>

StemChars == {"a", "-"}

\* all sequences over S of length at most n
SeqsUpTo(S, n) == UNION {[1..m -> S] : m \in 0..n}

\* the artifact keys a pointer document may carry: [dir/]stem[.zip]
Keys ==
  {pre \o stem \o ext : pre \in {<<>>, <<"r", "/">>},
                        stem \in SeqsUpTo(StemChars, MaxStemLen),
                        ext \in {<<>>, ZipExt}}

Max(S) == CHOOSE x \in S : \A y \in S : y <= x

\* positions of character c in s
Positions(s, c) == {i \in 1..Len(s) : s[i] = c}

StripTrailingSlashes(s) ==
  SubSeq(s, 1, Max({0} \cup {i \in 1..Len(s) : s[i] # "/"}))

AfterLastSlash(s) == SubSeq(s, Max({0} \cup Positions(s, "/")) + 1, Len(s))

\* path.basename(p)
basename(p) == AfterLastSlash(StripTrailingSlashes(p))

EndsWith(s, suffix) ==
  /\ Len(suffix) <= Len(s)
  /\ SubSeq(s, Len(s) - Len(suffix) + 1, Len(s)) = suffix

\* path.basename(p, ext) on a slash-free p
basenameExt(p, ext) ==
  IF EndsWith(basename(p), ext)
  THEN SubSeq(basename(p), 1, Len(basename(p)) - Len(ext))
  ELSE basename(p)

\* position of the k-th occurrence of sep in s; 0 before the first one and
\* Len(s) + 1 after the last one
SepAt(s, sep, k) ==
  IF k = 0 THEN 0
  ELSE IF k > Cardinality(Positions(s, sep)) THEN Len(s) + 1
  ELSE CHOOSE i \in Positions(s, sep) :
         Cardinality({j \in Positions(s, sep) : j <= i}) = k

\* String.prototype.split(sep): the list of segments, never empty
Split(s, sep) ==
  [k \in 1..(Cardinality(Positions(s, sep)) + 1) |->
     SubSeq(s, SepAt(s, sep, k - 1) + 1, SepAt(s, sep, k) - 1)]

\* the first n parts joined with sep
RECURSIVE JoinFirst(_, _, _)
JoinFirst(parts, sep, n) ==
  IF n = 0 THEN <<>>
  ELSE IF n = 1 THEN parts[1]
  ELSE JoinFirst(parts, sep, n - 1) \o <<sep>> \o parts[n]

\* Array.prototype.join(sep)
Join(parts, sep) == JoinFirst(parts, sep, Len(parts))

\* DropLast dropping the first part instead: slice(1)
DropFirst(parts) == SubSeq(parts, 2, Len(parts))

\* Array.prototype.slice(0, -1)
DropLast(parts) == SubSeq(parts, 1, Len(parts) - 1)

outputPathFor(zipPath) ==
  Join(DropLast(Split(basenameExt(zipPath, ZipExt), "-")), "-")

holdingPathFor(path) == path \o HoldingSuffix

\* -------------------------------------------------------------- filesystem
Absent == "absent"
Contents == {Absent, "old", "stale", "partial", "new"}


\* outcomes of fsp.move(src, dst, {overwrite: true}) on filesystem f
MoveOutcomes(f, src, dst) ==
  IF f[src] = Absent THEN {"enoent"}
  ELSE IF f[dst] = Absent THEN {"ok", "fail"}
  ELSE {"ok", "fail", "failDestRemoved"}

\* ApplyMove without the overwrite option: an existing dst is left in place
ApplyMoveNoOverwrite(f, src, dst, o) ==
  IF o = "ok" /\ f[dst] = Absent THEN [f EXCEPT ![dst] = f[src], ![src] = Absent]
  ELSE IF o = "failDestRemoved" THEN [f EXCEPT ![dst] = Absent]
  ELSE f

\* ApplyMove copying instead of moving: src is left in place
ApplyMoveCopy(f, src, dst, o) ==
  IF o = "ok" THEN [f EXCEPT ![dst] = f[src]]
  ELSE IF o = "failDestRemoved" THEN [f EXCEPT ![dst] = Absent]
  ELSE f

\* the filesystem after fsp.move(src, dst, {overwrite: true}) ended with o
ApplyMove(f, src, dst, o) ==
  IF o = "ok" THEN [f EXCEPT ![dst] = f[src], ![src] = Absent]
  ELSE IF o = "failDestRemoved" THEN [f EXCEPT ![dst] = Absent]
  ELSE f

\* ------------------------------------------------------------------- state
VARIABLES
  configBucket,   \* this.configBucket
  configKey,      \* this.configKey
  pointerKey,     \* "key" of the pointer document stored in S3
  appKey,         \* this.appKey
  zipPath,        \* this.zipPath
  outputPath,     \* this.outputPath
  originalPath,   \* this.originalPath
  holdingPath,    \* this.holdingPath
  fs,             \* directory contents by path
  fs0,            \* directory contents when the attempt started
  pc,             \* the pipeline step to run next, or how download() ended
  attemptNumber,  \* argument of the pending unzipApp call (0: omitted)
  result,         \* value download() resolved with
  error,          \* error download() rejected with
  steps,          \* methods invoked so far, in order
  io              \* external calls completed so far, in order, with outcome

vars == <<configBucket, configKey, pointerKey, appKey, zipPath, outputPath,
          originalPath, holdingPath, fs, fs0, pc, attemptNumber, result,
          error, steps, io>>

fields == <<appKey, zipPath, outputPath, originalPath, holdingPath>>
config == <<configBucket, configKey, pointerKey, fs0>>

Settled == {"resolved", "rejected"}
Terminal == Settled \cup {"pending"}

Init ==
  /\ configBucket \in {<<>>, <<"b">>}
  /\ configKey \in {<<>>, <<"k">>}
  /\ pointerKey \in Keys
  /\ appKey = Undef
  /\ zipPath = Undef
  /\ outputPath = Undef
  /\ originalPath = Undef
  /\ holdingPath = Undef
  /\ \E out \in {outputPathFor(basename(pointerKey))} :
       \E o \in {Absent, "old"}, h \in {Absent, "stale"} :
         \* a holding directory is left behind only by the stage of an
         \* earlier attempt, which needs a non-empty output path
         /\ h = "stale" => Truthy(out)
         /\ fs = (out :> o) @@ (holdingPathFor(out) :> h)
  /\ fs0 = fs
  /\ pc = "download"
  /\ attemptNumber = 0
  /\ result = Undef
  /\ error = "none"
  /\ steps = <<>>
  /\ io = <<>>

Call(op, res) == [op |-> op, res |-> res]

\* ConfigMissing requiring both coordinates to be missing
ConfigMissingBoth == ~Truthy(configBucket) /\ ~Truthy(configKey)

\* guard of download: a storage coordinate is missing
ConfigMissing == ~Truthy(configBucket) \/ ~Truthy(configKey)

\* download(): the configuration guard
Download ==
  /\ pc = "download"
  /\ steps' = Append(steps, "download")
  /\ IF ConfigMissing
     THEN /\ pc' = "rejected"
          /\ error' = "AppNotFoundError"
     ELSE /\ pc' = "fetchCurrentVersion"
          /\ error' = error
  /\ UNCHANGED <<config, fields, fs, attemptNumber, result, io>>

\* fetchCurrentVersion(): s3.getObject of the pointer, then the parse callback
FetchCurrentVersion ==
  /\ pc = "fetchCurrentVersion"
  /\ steps' = Append(steps, "fetchCurrentVersion")
  /\ \E r \in {"ok", "s3Error", "parseError"} :
       /\ io' = Append(io, Call("s3.getObject", r))
       /\ IF r = "ok"
          THEN /\ appKey' = pointerKey
               /\ zipPath' = basename(pointerKey)
               /\ outputPath' = outputPathFor(zipPath')
               /\ pc' = "moveOldAppIntoHolding"
               /\ error' = error
          ELSE /\ pc' = "rejected"
               /\ error' = r
               /\ UNCHANGED <<appKey, zipPath, outputPath>>
  /\ UNCHANGED <<config, originalPath, holdingPath, fs, attemptNumber, result>>

\* guard of moveOldAppIntoHolding: nothing to stage
NothingToStage == ~Truthy(outputPath)

\* AfterStage with the rejection of the move swallowed
AfterStageIgnoreError(o) == "downloadAppZip"

\* the step download() runs after the staging move ended with o
AfterStage(o) == IF o = "ok" THEN "downloadAppZip" ELSE "rejected"

\* moveOldAppIntoHolding(): record both paths, then move the app aside
MoveOldAppIntoHolding ==
  /\ pc = "moveOldAppIntoHolding"
  /\ steps' = Append(steps, "moveOldAppIntoHolding")
  /\ IF NothingToStage
     THEN /\ pc' = "downloadAppZip"
          /\ UNCHANGED <<originalPath, holdingPath, fs, error, io>>
     ELSE /\ originalPath' = outputPath
          /\ holdingPath' = holdingPathFor(outputPath)
          /\ \E o \in MoveOutcomes(fs, originalPath', holdingPath') :
               /\ fs' = ApplyMove(fs, originalPath', holdingPath', o)
               /\ io' = Append(io, Call("fsp.move", o))
               /\ pc' = AfterStage(o)
               /\ error' = IF pc' = "rejected" THEN "moveError" ELSE error
  /\ UNCHANGED <<config, appKey, zipPath, outputPath, attemptNumber, result>>

\* ways the piped S3 read stream -> file write stream can end
DownloadOutcomes ==
  IF zipPath = <<>> THEN {"writeError", "readError"}
  ELSE {"close", "writeError", "readError"}

\* DownloadZipNext with the 'error' listener resolving instead of rejecting
DownloadZipNextResolveOnError(r) ==
  IF r = "readError" THEN "pending" ELSE "unzipApp"

\* what the promise of downloadAppZip does on each outcome: 'close' and
\* 'error' are listened for on the file stream only, so an error of the
\* read stream settles nothing
DownloadZipNext(r) ==
  IF r = "close" THEN "unzipApp"
  ELSE IF r = "writeError" THEN "rejected"
  ELSE "pending"

\* downloadAppZip(): stream the artifact to zipPath
DownloadAppZip ==
  /\ pc = "downloadAppZip"
  /\ steps' = Append(steps, "downloadAppZip")
  /\ \E r \in DownloadOutcomes :
       /\ io' = Append(io, Call("s3.getObject.stream", r))
       /\ pc' = DownloadZipNext(r)
       /\ error' = IF pc' = "rejected" THEN "writeError" ELSE error
  /\ UNCHANGED <<config, fields, fs, attemptNumber, result>>

\* attemptNumber = attemptNumber || 1
AttemptOf(n) == IF n = 0 THEN 1 ELSE n

\* Exhausted with the comparison off by one
ExhaustedOffByOne(n) == n > maxNumUnzipAttempts + 1

\* Exhausted with >= in place of >
ExhaustedEarly(n) == n >= maxNumUnzipAttempts

\* guard of unzipApp: the attempt budget is used up
Exhausted(n) == n > maxNumUnzipAttempts

\* guard of restoreOldAppFromHolding: nothing was staged
NothingToRestore == ~Truthy(originalPath) \/ ~Truthy(holdingPath)

\* the directory left at outputPath by an 'unzip' run ending with r
Unzipped(f, r) ==
  IF r = "ok" THEN [f EXCEPT ![outputPath] = "new"]
  ELSE IF r = "failPartial" THEN [f EXCEPT ![outputPath] = "partial"]
  ELSE f

\* AfterRestore resolving, where the code rejects
AfterRestoreResolves(o) == IF o = "ok" THEN "removeOldApp" ELSE "pending"

\* what the promise built around restoreOldAppFromHolding does once the
\* restore ended with o: reject is called from .then() only
AfterRestore(o) == IF o = "ok" THEN "rejected" ELSE "pending"

\* unzipApp(attemptNumber): one 'unzip' run, or the rollback once the
\* budget is used up
UnzipApp ==
  /\ pc = "unzipApp"
  /\ IF Exhausted(AttemptOf(attemptNumber))
     THEN /\ steps' = steps \o <<"unzipApp", "restoreOldAppFromHolding">>
          /\ attemptNumber' = attemptNumber
          /\ IF NothingToRestore
             THEN /\ pc' = AfterRestore("ok")
                  /\ UNCHANGED <<fs, io>>
             ELSE \E o \in MoveOutcomes(fs, holdingPath, originalPath) :
                    /\ fs' = ApplyMove(fs, holdingPath, originalPath, o)
                    /\ io' = Append(io, Call("fsp.move", o))
                    /\ pc' = AfterRestore(o)
          /\ error' = IF pc' = "rejected" THEN "exceeded unzip attempt limit" ELSE error
     ELSE /\ steps' = Append(steps, "unzipApp")
          /\ \E r \in {"ok", "fail", "failPartial"} :
               /\ io' = Append(io, Call("exec unzip", r))
               /\ fs' = Unzipped(fs, r)
               /\ IF r = "ok"
                  THEN /\ pc' = "removeOldApp"
                       /\ attemptNumber' = attemptNumber
                  ELSE /\ pc' = "unzipApp"
                       /\ attemptNumber' = AttemptOf(attemptNumber) + 1
          /\ error' = error
  /\ UNCHANGED <<config, fields, result>>

\* NothingToRemove with the test inverted
NothingToRemoveInverted == Truthy(holdingPath)

\* guard of removeOldApp: no holding directory recorded
NothingToRemove == ~Truthy(holdingPath)

\* the step download() runs after removeOldApp ended with r
AfterRemove(r) == IF r = "ok" THEN "installNPMDependencies" ELSE "rejected"

\* Removed with a failed removal rolling the old app back over the new one
RemovedRollbackOnFail(f, r) ==
  IF r = "ok" THEN [f EXCEPT ![holdingPath] = Absent]
  ELSE [f EXCEPT ![originalPath] = f[holdingPath], ![holdingPath] = Absent]

\* the filesystem after fsp.remove(holdingPath) ended with r
Removed(f, r) == IF r = "ok" THEN [f EXCEPT ![holdingPath] = Absent] ELSE f

\* removeOldApp(): remove the holding directory
RemoveOldApp ==
  /\ pc = "removeOldApp"
  /\ steps' = Append(steps, "removeOldApp")
  /\ IF NothingToRemove
     THEN /\ pc' = AfterRemove("ok")
          /\ UNCHANGED <<fs, io, error>>
     ELSE \E r \in {"ok", "fail"} :
            /\ fs' = Removed(fs, r)
            /\ io' = Append(io, Call("fsp.remove", r))
            /\ pc' = AfterRemove(r)
            /\ error' = IF pc' = "rejected" THEN "removeError" ELSE error
  /\ UNCHANGED <<config, fields, attemptNumber, result>>

\* AfterInstall without the catch
AfterInstallNoCatch(r) == IF r = "ok" THEN "resolved" ELSE "rejected"

\* how download() ends after 'npm install' ended with r: the catch of
\* installNPMDependencies swallows the failure
AfterInstall(r) == "resolved"

\* installNPMDependencies() with its catch, then .then(() => this.outputPath)
InstallNPMDependencies ==
  /\ pc = "installNPMDependencies"
  /\ steps' = Append(steps, "installNPMDependencies")
  /\ \E r \in {"ok", "fail"} :
       /\ io' = Append(io, Call("exec npm install", r))
       /\ pc' = AfterInstall(r)
  /\ result' = IF pc' = "resolved" THEN outputPath ELSE result
  /\ error' = IF pc' = "rejected" THEN "installError" ELSE error
  /\ UNCHANGED <<config, fields, fs, attemptNumber>>

Next ==
  \/ Download
  \/ FetchCurrentVersion
  \/ MoveOldAppIntoHolding
  \/ DownloadAppZip
  \/ UnzipApp
  \/ RemoveOldApp
  \/ InstallNPMDependencies

Spec == Init /\ [][Next]_vars

TypeOK ==
  /\ pc \in {"download", "fetchCurrentVersion", "moveOldAppIntoHolding",
             "downloadAppZip", "unzipApp", "removeOldApp",
             "installNPMDependencies"} \cup Terminal
  /\ attemptNumber \in 0..(maxNumUnzipAttempts + 1)
  /\ \A p \in DOMAIN fs : fs[p] \in Contents

\* ------------------------------------------------------- history operators
Ran(m) == \E i \in DOMAIN steps : steps[i] = m
Did(op, res) == \E i \in DOMAIN io : io[i] = Call(op, res)
IsUnzip(c) == c.op = "exec unzip"
UnzipRuns == SelectSeq(io, IsUnzip)
LastCall == io[Len(io)]
ExceededError == "exceeded unzip attempt limit"

\* the old app was moved to holding by this attempt
StagedOldApp == Truthy(holdingPath) /\ io[2] = Call("fsp.move", "ok")

\* every one of the maxNumUnzipAttempts unzip runs failed and the rollback ran
UnzipExhausted ==
  /\ Len(UnzipRuns) = maxNumUnzipAttempts
  /\ \A i \in DOMAIN UnzipRuns : UnzipRuns[i].res # "ok"
  /\ Ran("restoreOldAppFromHolding")

RollbackMoveFailed ==
  UnzipExhausted /\ LastCall.op = "fsp.move" /\ LastCall.res # "ok"
RollbackMoveOk == UnzipExhausted /\ LastCall = Call("fsp.move", "ok")

\* ------------------------------------------------------------------ claims

C2_BoundedUnzip ==
  /\ Len(UnzipRuns) <= maxNumUnzipAttempts
  /\ \A i \in DOMAIN UnzipRuns : i < Len(UnzipRuns) => UnzipRuns[i].res # "ok"

\* C2 witness: the fifth run happened, after four failures, and succeeded
C2_Witness ==
  /\ Len(UnzipRuns) = maxNumUnzipAttempts
  /\ UnzipRuns[maxNumUnzipAttempts].res = "ok"

\* C3 as stated: when the rollback move fails after the 5 failed unzip runs,
\* download() still rejects with the exhaustion error.
C3_Claim ==
  RollbackMoveFailed => (pc = "rejected" /\ error = ExceededError)

\* C4 as stated: staging with no directory at outputPath performs no move,
\* raises no error and records no holding path.
C4_Claim ==
  [][(pc = "moveOldAppIntoHolding" /\ fs[outputPath] = Absent) =>
       /\ io' = io
       /\ pc' # "rejected"
       /\ holdingPath' = Undef
       /\ fs' = fs]_vars

\* C5 as stated: a failed removal of the holding directory is not fatal; the
\* pipeline goes on to the dependency install and resolves with outputPath.
C5_Claim ==
  Did("fsp.remove", "fail") =>
    /\ pc \in {"installNPMDependencies", "resolved"}
    /\ pc = "resolved" => result = outputPath

\* C6: once an unzip run succeeded there is never a rollback; and once the
\* commit step has also run without failing, the holding directory is gone,
\* outputPath holds the new app and download() is resolving with outputPath.
C6_SuccessCommits ==
  /\ Did("exec unzip", "ok") => ~Ran("restoreOldAppFromHolding")
  /\ (Did("exec unzip", "ok") /\ Ran("removeOldApp") /\ ~Did("fsp.remove", "fail")) =>
       /\ Truthy(holdingPath) => Did("fsp.remove", "ok")
       /\ fs[holdingPathFor(outputPath)] = Absent
       /\ fs[outputPath] = "new"
       /\ pc \in {"installNPMDependencies", "resolved"}
       /\ pc = "resolved" => result = outputPath

\* C6 witness: staged, unzip succeeded on the third run, committed, resolved
C6_Witness ==
  /\ StagedOldApp
  /\ Len(UnzipRuns) = 3 /\ UnzipRuns[3].res = "ok"
  /\ Did("fsp.remove", "ok")
  /\ pc = "resolved" /\ result = <<"a">>

DownloadFailed ==
  \E i \in DOMAIN io : io[i].op = "s3.getObject.stream" /\ io[i].res # "close"

C8_Claim ==
  outputPath = <<>> =>
    /\ \A i \in DOMAIN io :
         io[i].op \notin {"fsp.move", "s3.getObject.stream", "exec unzip",
                          "exec npm install"}
    /\ pc # "resolved"

\* C9 as stated: every attempt eventually settles (resolves or rejects).
\* Every step of the chain runs once its predecessor has completed and the
\* chain is finite, so an attempt fails to settle exactly when its promise
\* is left pending with no step that could still settle it.
C9_Claim == pc # "pending"

\* C10 as stated: whenever download() has resolved, the value is the
\* non-empty outputPath, the new app is at outputPath and no holding
\* directory remains.
C10_Claim ==
  pc = "resolved" =>
    /\ Truthy(result) /\ result = outputPath
    /\ fs[outputPath] = "new"
    /\ fs[holdingPathFor(outputPath)] = Absent

\* the staging move of this attempt succeeded / failed
StageMoveOk == Len(io) >= 2 /\ io[2] = Call("fsp.move", "ok")
StageMoveFailed == Len(io) >= 2 /\ io[2].op = "fsp.move" /\ io[2].res # "ok"

\* C11: right after a successful staging move of an existing app, the holding
\* directory outputPath-holding has the previous app's contents and nothing
\* is at outputPath, also when a stale holding directory was there before.
C11_StagedIntoHolding ==
  (pc = "downloadAppZip" /\ StageMoveOk) =>
    /\ fs0[outputPath] = "old"
    /\ holdingPath = outputPath \o HoldingSuffix
    /\ fs[outputPath \o HoldingSuffix] = fs0[outputPath]
    /\ fs[outputPath] = Absent

\* C11 witness: staged over a stale holding directory
C11_Witness ==
  /\ pc = "downloadAppZip" /\ StageMoveOk
  /\ fs0[holdingPath] = "stale"
  /\ fs[holdingPath] = "old"

\* C12: with the bucket or the key missing, download() is rejected at once:
\* no external call is made, no step is run and no field or directory
\* changes.
C12_MissingConfigFailsFast ==
  ((configBucket = <<>> \/ configKey = <<>>) /\ pc # "download") =>
    /\ pc = "rejected" /\ error = "AppNotFoundError"
    /\ io = <<>>
    /\ steps = <<"download">>
    /\ outputPath = Undef /\ originalPath = Undef /\ holdingPath = Undef
    /\ fs = fs0

\* C12 witness: only the key is missing, download() was rejected
C12_Witness ==
  /\ configBucket # <<>> /\ configKey = <<>>
  /\ pc = "rejected"

\* C13: a failed 'npm install' is swallowed: the step that sees it resolves
\* download() with outputPath and changes no directory; the new app stays at
\* outputPath and no holding directory is back.
C13_InstallFailureSwallowed ==
  [][(pc = "installNPMDependencies" /\
      io' = Append(io, Call("exec npm install", "fail"))) =>
       /\ pc' = "resolved" /\ result' = outputPath
       /\ fs' = fs
       /\ fs'[outputPath] = "new"
       /\ fs'[outputPath \o HoldingSuffix] = Absent]_vars

\* C13 witness: staged, unpacked, committed, install failed, resolved
C13_Witness ==
  /\ StageMoveOk /\ Did("fsp.remove", "ok")
  /\ LastCall = Call("exec npm install", "fail")
  /\ pc = "resolved"

\* C14: a failed staging move is fatal and not retried: it is the last
\* external call of the attempt, no later step is run and download() is
\* rejected with the move error.
C14_StageFailureFatal ==
  StageMoveFailed =>
    /\ pc = "rejected" /\ error = "moveError"
    /\ Len(io) = 2
    /\ steps = <<"download", "fetchCurrentVersion", "moveOldAppIntoHolding">>

\* C14 witness: the move of an existing app failed
C14_Witness ==
  /\ StageMoveFailed /\ fs0[outputPath] = "old"
  /\ io[2].res = "failDestRemoved"

\* C15: once the removal of the holding directory has failed, the newly
\* unpacked app is still at outputPath, in this and every later state.
C15_CommitFailureKeepsApp ==
  Did("fsp.remove", "fail") => fs[outputPath] = "new"

\* C15 witness: the removal failed after the third unzip run succeeded
C15_Witness ==
  /\ Did("fsp.remove", "fail")
  /\ Len(UnzipRuns) = 3
  /\ fs[holdingPath] = "old"

\* the name with its last '-' and everything after it cut off; empty when
\* there is no '-'
BeforeLastDash(name) ==
  IF \A i \in 1..Len(name) : name[i] # "-" THEN <<>>
  ELSE SubSeq(name, 1, (CHOOSE i \in 1..Len(name) :
                          /\ name[i] = "-"
                          /\ \A j \in (i + 1)..Len(name) : name[j] # "-") - 1)

\* the file name with one trailing ".zip" cut off
Stem(file) ==
  IF Len(file) >= 4 /\ SubSeq(file, Len(file) - 3, Len(file)) = <<".", "z", "i", "p">>
  THEN SubSeq(file, 1, Len(file) - 4)
  ELSE file

\* C16: once the pointer is read, zipPath is the slash-free tail of the key
\* and outputPath is the stem of zipPath (".zip" stripped) up to, not
\* including, its last '-'; it is empty when the stem has no '-'.
C16_OutputPathDerivation ==
  zipPath # Undef =>
    /\ \A i \in 1..Len(zipPath) : zipPath[i] # "/"
    /\ \E n \in 0..Len(appKey) :
         /\ SubSeq(appKey, n + 1, n + Len(zipPath)) = zipPath
         /\ \A i \in (n + Len(zipPath) + 1)..Len(appKey) : appKey[i] = "/"
         /\ n > 0 => appKey[n] = "/"
    /\ outputPath = BeforeLastDash(Stem(zipPath))

\* C16 witness: a key in a folder whose stem has two '-'
C16_Witness ==
  /\ appKey = <<"r", "/", "a", "-", "-", ".", "z", "i", "p">>
  /\ zipPath = <<"a", "-", "-", ".", "z", "i", "p">>
  /\ outputPath = <<"a", "-">>

Count(m) == Cardinality({i \in DOMAIN steps : steps[i] = m})

\* the rollback move of this attempt was made and succeeded
RollbackDone ==
  Ran("restoreOldAppFromHolding") /\ LastCall = Call("fsp.move", "ok")

\* C17 as stated: holdingPath is set exactly while a move to holding has
\* succeeded and has been undone neither by the commit removal nor by the
\* rollback restore.
C17_Claim ==
  Truthy(holdingPath) <=>
    (StageMoveOk /\ ~Did("fsp.remove", "ok") /\ ~RollbackDone)

\* C18 as stated: an attempt that moved the old app to holding and has ended
\* ran exactly one of commit (removeOldApp) and rollback
\* (restoreOldAppFromHolding).
C18_Claim ==
  (StageMoveOk /\ pc \in Settled) =>
    (Ran("removeOldApp") # Ran("restoreOldAppFromHolding"))

\* C19: the rollback is invoked at most once, only after exactly
\* maxNumUnzipAttempts unzip runs that all failed; and download() is rejected
\* with the exhaustion error only after the rollback was invoked and, where
\* there was something to restore, its move had completed.
C19_RollbackOnlyOnExhaustion ==
  /\ Count("restoreOldAppFromHolding") <= 1
  /\ Ran("restoreOldAppFromHolding") =>
       /\ Len(UnzipRuns) = maxNumUnzipAttempts
       /\ \A i \in DOMAIN UnzipRuns : UnzipRuns[i].res # "ok"
  /\ error = ExceededError =>
       /\ pc = "rejected"
       /\ Ran("restoreOldAppFromHolding")
       /\ ~NothingToRestore => LastCall = Call("fsp.move", "ok")

\* C19 witness: rejected with the exhaustion error after rolling back
C19_Witness ==
  /\ error = ExceededError
  /\ StageMoveOk
  /\ fs[originalPath] = "old"

StepOrder ==
  <<"download", "fetchCurrentVersion", "moveOldAppIntoHolding",
    "downloadAppZip", "unzipApp", "removeOldApp", "installNPMDependencies">>

\* position of method m in the pipeline; the rollback is part of unpack
Rank(m) ==
  IF m = "restoreOldAppFromHolding" THEN 5
  ELSE CHOOSE i \in DOMAIN StepOrder : StepOrder[i] = m

\* an external call whose failure ends the attempt
Fatal(c) ==
  /\ c.res \notin {"ok", "close"}
  /\ c.op \notin {"exec unzip", "exec npm install"}

\* C20: the steps are begun one after the other in pipeline order (only
\* unpack repeats), each only after the step before it has succeeded, and
\* a fatal failure is the last thing the attempt does.
C20_StrictSequence ==
  /\ steps # <<>> => steps[1] = "download"
  /\ \A i \in 1..(Len(steps) - 1) :
       \/ Rank(steps[i + 1]) = Rank(steps[i]) + 1
       \/ Rank(steps[i + 1]) = 5 /\ Rank(steps[i]) = 5
  /\ Ran("fetchCurrentVersion") => ~ConfigMissing
  /\ Ran("moveOldAppIntoHolding") => io[1] = Call("s3.getObject", "ok")
  /\ Ran("downloadAppZip") => ~StageMoveFailed
  /\ Ran("unzipApp") => Did("s3.getObject.stream", "close")
  /\ Ran("removeOldApp") => Did("exec unzip", "ok")
  /\ Ran("installNPMDependencies") => ~Did("fsp.remove", "fail")
  /\ \A i \in DOMAIN io :
       Fatal(io[i]) => (i = Len(io) /\ pc \in {"rejected", "pending"})

\* C20 witness: the whole pipeline ran, with one repeated unzip
C20_Witness ==
  /\ pc = "resolved"
  /\ StageMoveOk
  /\ Len(UnzipRuns) = 2
  /\ Len(steps) = 8
====
